---- MODULE Spec2Model ----
(***************************************************************************)
(* Model of the resume-submission backend (src/server.js).                 *)
(*                                                                         *)
(* One POST /api/submit-resume request runs through the route's chain      *)
(*   limiter -> upload.single('resume') -> async handler                   *)
(* and the handler suspends at its two awaited transporter.sendMail calls. *)
(* Several requests are in flight at once on the event loop; each one is   *)
(* held in a request slot.  Strings the code inspects character by         *)
(* character (the form fields) are sequences of one-character strings.     *)
(***************************************************************************)
EXTENDS Integers, Sequences, FiniteSets, TLC

(***************************************************************************)
(* Bounds of the model.                                                    *)
(***************************************************************************)
NumReqs == 2        \* request slots in flight at once
MaxTime == 3        \* clock ticks explored
WindowTicks == 2    \* windowMs (15 minutes) measured in clock ticks
ExtraHits == 2      \* requests counted beyond max in one limiter window

(***************************************************************************)
(* Program constants.                                                      *)
(***************************************************************************)
max == 5                          \* limiter: max
fileSize == 5 * 1024 * 1024       \* upload: limits.fileSize
allowedTypes ==
    { "application/pdf",
      "application/msword",
      "application/vnd.openxmlformats-officedocument.wordprocessingml.document" }

ThrottleMessage == <<"Too many submissions, please try again later.">>
MissingFieldsMessage == <<"All required fields must be filled">>
InvalidEmailMessage == <<"Invalid email format">>
SuccessMessage == <<"Resume submitted successfully">>
FailedMessage == <<"Failed to submit resume. Please try again.">>
UploadErrorPrefix == "File upload error: "
InternalErrorMessage == <<"Internal server error">>
InvalidFileTypeText == "Invalid file type. Only PDF and Word documents are allowed."
FileTooLargeText == "File too large"

RecruiterAddress == <<"z", "@", "g", ".", "c">>   \* 'zitrainvestments20@gmail.com'
RecruiterSubject == "New Resume Submission: "
ConfirmationSubject == "Application Received - Zitra"

Reqs == 1..NumReqs
\* Client identities: the keys of the limiter's store.
Clients == { "10.0.0.1", "10.0.0.2" }

(***************************************************************************)
(* Inputs.                                                                 *)
(***************************************************************************)
RequiredText == {"surname", "firstName", "email", "phone", "position"}

\* A text field of the form: not sent, sent empty, or sent with a value.
TextValues == { <<>>, <<"a">> }

EmailValues ==
    { <<>>,
      <<"a">>,
      <<"a", ".", "b">>,
      <<"a", "@", "b">>,
      <<"@", "b", ".", "c">>,
      <<"a", "@", ".", "c">>,
      <<"a", "@", "b", ".">>,
      <<"a", " ", "@", "b", ".", "c">>,
      <<"a", "@", "b", "@", "c", ".", "d">>,
      <<"a", "@", "b", ".", "c">>,
      <<"b", "@", "c", ".", "d">>,
      <<"a", ".", "b", "@", "c", ".", ".", "d">> }

pdf == [ originalname |-> "cv.pdf", mimetype |-> "application/pdf",
         size |-> 153600, buffer |-> <<37, 80, 68, 70>> ]
doc == [ originalname |-> "cv.doc", mimetype |-> "application/msword",
         size |-> 1, buffer |-> <<208>> ]
docxAtLimit ==
       [ originalname |-> "cv.docx",
         mimetype |-> "application/vnd.openxmlformats-officedocument.wordprocessingml.document",
         size |-> 5242880, buffer |-> <<80, 75>> ]
pdfTooLarge == [ originalname |-> "big.pdf", mimetype |-> "application/pdf",
         size |-> 5242881, buffer |-> <<37, 80>> ]
png == [ originalname |-> "cv.png", mimetype |-> "image/png",
         size |-> 2048, buffer |-> <<137, 80>> ]
pngTooLarge == [ originalname |-> "big.png", mimetype |-> "image/png",
         size |-> 6000000, buffer |-> <<137>> ]

\* The 'resume' file part of the multipart body: none or one.
Uploads == { <<>>, <<pdf>>, <<doc>>, <<docxAtLimit>>, <<pdfTooLarge>>, <<png>>,
             <<pngTooLarge>> }

\* Every form: each required text field absent, empty or filled.
BodiesOver(present) ==
    { b \in [ present -> TextValues \cup EmailValues ] :
        \A f \in present :
            IF f = "email" THEN b[f] \in EmailValues ELSE b[f] \in TextValues }

Bodies == UNION { BodiesOver(present) : present \in SUBSET RequiredText }

AllPayloads == { [ body |-> b, upload |-> u ] : b \in Bodies, u \in Uploads }

FullBody(email) ==
    [ f \in RequiredText |-> IF f = "email" THEN email ELSE <<"a">> ]

\* A few representative forms for the runs with several requests in flight.
FewPayloads ==
    { [ body |-> FullBody(<<"a", "@", "b", ".", "c">>), upload |-> <<pdf>> ],
      [ body |-> FullBody(<<"b", "@", "c", ".", "d">>), upload |-> <<docxAtLimit>> ],
      [ body |-> FullBody(<<"a", "@", "b">>), upload |-> <<pdf>> ],
      [ body |-> [ f \in RequiredText \ {"phone"} |-> FullBody(<<"a">>)[f] ],
        upload |-> <<pdf>> ],
      [ body |-> FullBody(<<"a", "@", "b", ".", "c">>), upload |-> <<pdfTooLarge>> ],
      [ body |-> FullBody(<<"a", "@", "b", ".", "c">>), upload |-> <<png>> ] }

\* A valid and an invalid form for the runs over several limiter windows.
LimiterPayloads ==
    { [ body |-> FullBody(<<"a", "@", "b", ".", "c">>), upload |-> <<pdf>> ],
      [ body |-> FullBody(<<"a", "@", "b">>), upload |-> <<png>> ] }

\* Forms that upload accepts: a valid one and one for each validation rule.
HandlerPayloads ==
    { [ body |-> FullBody(<<"a", "@", "b", ".", "c">>), upload |-> <<pdf>> ],
      [ body |-> FullBody(<<"a", "@", "b">>), upload |-> <<pdf>> ],
      [ body |-> [ f \in RequiredText \ {"phone"} |-> FullBody(<<"a">>)[f] ],
        upload |-> << >> ] }

\* Error texts the mail transport can reject a send with.
TransportErrors == { "EAUTH", "ETIMEDOUT" }

VARIABLES
    now,        \* the clock, in ticks
    hits,       \* limiter store: requests counted per client in its window
    resetTime,  \* limiter store: when each client's window ends
    recent,     \* per client, admissions in each of the last WindowTicks ticks
    pc,         \* per slot: where the request is
    req,        \* per slot: the request (client, body, upload, file)
    mail,       \* per slot: the sendMail calls made, each with its outcome
    res,        \* per slot: the responses written
    reached     \* per slot: the stages of the chain the request entered

vars == << now, hits, resetTime, recent, pc, req, mail, res, reached >>

NoRequest ==
    [ client |-> "", body |-> [ f \in {} |-> << >> ], upload |-> << >>, file |-> << >> ]

Init ==
    /\ now = 0
    /\ hits = [ c \in Clients |-> 0 ]
    /\ resetTime = [ c \in Clients |-> 0 ]
    /\ recent = [ c \in Clients |-> [ i \in 1..WindowTicks |-> 0 ] ]
    /\ pc = [ s \in Reqs |-> "Idle" ]
    /\ req = [ s \in Reqs |-> NoRequest ]
    /\ mail = [ s \in Reqs |-> << >> ]
    /\ res = [ s \in Reqs |-> << >> ]
    /\ reached = [ s \in Reqs |-> {} ]

(***************************************************************************)
(* limiter: rateLimit({ windowMs, max, message }), first in the chain.     *)
(* The store keeps, per client, a hit count and the end of the client's    *)
(* current window; a request arriving after the window's end starts a new  *)
(* window.  Every request is counted, the throttled ones too.              *)
(***************************************************************************)
WindowExpired(c) == resetTime[c] <= now

TotalHits(c) == IF WindowExpired(c) THEN 1 ELSE hits[c] + 1

\* The limit compared one request late.
Throttled_OffByOne(totalHits) == totalHits > max + 1

Throttled(totalHits) == totalHits > max

Response(status, json, success, message) ==
    [ status |-> status, json |-> json, success |-> success, message |-> message ]

\* The limiter's own reply: status 429, the message as plain text.
ThrottleResponse == Response(429, FALSE, FALSE, ThrottleMessage)

limiter(s, c, p) ==
    /\ pc[s] \in {"Idle", "Done"}
    /\ TotalHits(c) <= max + ExtraHits
    /\ hits' = [ hits EXCEPT ![c] = TotalHits(c) ]
    /\ resetTime' = [ resetTime EXCEPT
                        ![c] = IF WindowExpired(c) THEN now + WindowTicks ELSE @ ]
    /\ req' = [ req EXCEPT ![s] = [ client |-> c, body |-> p.body,
                                    upload |-> p.upload, file |-> << >> ] ]
    /\ mail' = [ mail EXCEPT ![s] = << >> ]
    /\ reached' = [ reached EXCEPT ![s] = {"limiter"} ]
    /\ IF Throttled(TotalHits(c))
         THEN /\ res' = [ res EXCEPT ![s] = << ThrottleResponse >> ]
              /\ pc' = [ pc EXCEPT ![s] = "Done" ]
              /\ UNCHANGED recent
         ELSE /\ res' = [ res EXCEPT ![s] = << >> ]
              /\ pc' = [ pc EXCEPT ![s] = "Intake" ]
              /\ recent' = [ recent EXCEPT ![c][1] = @ + 1 ]
    /\ UNCHANGED now

(***************************************************************************)
(* Error-handling middleware: where next(err) of a middleware ends.        *)
(***************************************************************************)
errorMiddleware(error) == Response(500, TRUE, FALSE, InternalErrorMessage)

(***************************************************************************)
(* upload.single('resume'): the file filter sees the part's MIME type      *)
(* before its bytes, the size limit applies while the bytes are read.      *)
(* A rejected file ends the middleware with next(err): the handler is      *)
(* skipped and the error-handling middleware answers.                      *)
(***************************************************************************)
NoError == [ multer |-> FALSE, message |-> "" ]

fileFilter(file) ==
    IF file.mimetype \in allowedTypes
      THEN NoError
      ELSE [ multer |-> FALSE, message |-> InvalidFileTypeText ]

UploadError(u) ==
    IF u = << >> THEN NoError
    ELSE IF fileFilter(u[1]) # NoError THEN fileFilter(u[1])
    ELSE IF u[1].size > fileSize
      THEN [ multer |-> TRUE, message |-> FileTooLargeText ]
    ELSE NoError

upload(s) ==
    /\ pc[s] = "Intake"
    /\ reached' = [ reached EXCEPT ![s] = @ \cup {"intake"} ]
    /\ IF UploadError(req[s].upload) # NoError
         THEN /\ res' = [ res EXCEPT
                            ![s] = Append(@, errorMiddleware(UploadError(req[s].upload))) ]
              /\ pc' = [ pc EXCEPT ![s] = "Done" ]
              /\ UNCHANGED req
         ELSE /\ req' = [ req EXCEPT ![s].file = req[s].upload ]
              /\ pc' = [ pc EXCEPT ![s] = "Handler" ]
              /\ UNCHANGED res
    /\ UNCHANGED << now, hits, resetTime, recent, mail >>

(***************************************************************************)
(* The handler up to its first await: validation, composition, first send. *)
(***************************************************************************)
\* !value of a form field: undefined (absent) or the empty string.
Falsy(body, f) == f \notin DOMAIN body \/ body[f] = << >>

\* The required-field check with phone left out of the condition.
MissingRequired_NoPhone(body, file) ==
    \/ Falsy(body, "surname")
    \/ Falsy(body, "firstName")
    \/ Falsy(body, "email")
    \/ Falsy(body, "position")
    \/ file = << >>

MissingRequired(body, file) ==
    \/ Falsy(body, "surname")
    \/ Falsy(body, "firstName")
    \/ Falsy(body, "email")
    \/ Falsy(body, "phone")
    \/ Falsy(body, "position")
    \/ file = << >>

\* [^\s@]
NotSpaceNorAt(ch) == ch \notin {" ", "@"}

AllNotSpaceNorAt(str, from, to) == \A k \in from..to : NotSpaceNorAt(str[k])

\* /^[^\s@]+@[^\s@]+\.[^\s@]+$/.test(str)
emailRegex(str) ==
    \E i \in 1..Len(str), j \in 1..Len(str) :
        /\ str[i] = "@"
        /\ str[j] = "."
        /\ 1 < i /\ i + 1 < j /\ j < Len(str)
        /\ AllNotSpaceNorAt(str, 1, i - 1)
        /\ AllNotSpaceNorAt(str, i + 1, j - 1)
        /\ AllNotSpaceNorAt(str, j + 1, Len(str))

\* The two validation rules in the opposite order.
Validate_EmailFirst(body, file) ==
    IF ~ Falsy(body, "email") /\ ~ emailRegex(body["email"]) THEN "InvalidEmailFormat"
    ELSE IF MissingRequired(body, file) THEN "MissingFields"
    ELSE "Valid"

Validate(body, file) ==
    IF MissingRequired(body, file) THEN "MissingFields"
    ELSE IF ~ emailRegex(body["email"]) THEN "InvalidEmailFormat"
    ELSE "Valid"

\* The recruiter notification with replies going to the intake address.
mailOptions_ReplyToSelf(body, file) ==
    [ to |-> RecruiterAddress,
      replyTo |-> << RecruiterAddress >>,
      subject |-> RecruiterSubject,
      attachments |-> << [ filename |-> file.originalname,
                           content |-> file.buffer,
                           contentType |-> file.mimetype ] >> ]

mailOptions(body, file) ==
    [ to |-> RecruiterAddress,
      replyTo |-> << body["email"] >>,
      subject |-> RecruiterSubject,
      attachments |-> << [ filename |-> file.originalname,
                           content |-> file.buffer,
                           contentType |-> file.mimetype ] >> ]

confirmationMailOptions(body) ==
    [ to |-> body["email"],
      replyTo |-> << >>,
      subject |-> ConfirmationSubject,
      attachments |-> << >> ]

\* transporter.sendMail(msg): the call is recorded, its reply is pending.
sendMail(log, msg) == Append(log, [ msg |-> msg, result |-> "pending", error |-> "" ])

\* A catch block that tells the client what went wrong.
catchBlock_EchoError(error) ==
    IF error.multer
      THEN Response(400, TRUE, FALSE, << UploadErrorPrefix, error.message >>)
      ELSE Response(500, TRUE, FALSE, << "Failed to submit resume: ", error.message >>)

\* The handler's catch block.
catchBlock(error) ==
    IF error.multer
      THEN Response(400, TRUE, FALSE, << UploadErrorPrefix, error.message >>)
      ELSE Response(500, TRUE, FALSE, FailedMessage)

submitResume(s) ==
    /\ pc[s] = "Handler"
    /\ reached' = [ reached EXCEPT ![s] = @ \cup {"handler"} ]
    /\ LET v == Validate(req[s].body, req[s].file) IN
         IF v = "MissingFields"
           THEN /\ res' = [ res EXCEPT
                              ![s] = Append(@, Response(400, TRUE, FALSE, MissingFieldsMessage)) ]
                /\ pc' = [ pc EXCEPT ![s] = "Done" ]
                /\ UNCHANGED mail
         ELSE IF v = "InvalidEmailFormat"
           THEN /\ res' = [ res EXCEPT
                              ![s] = Append(@, Response(400, TRUE, FALSE, InvalidEmailMessage)) ]
                /\ pc' = [ pc EXCEPT ![s] = "Done" ]
                /\ UNCHANGED mail
         ELSE /\ mail' = [ mail EXCEPT
                             ![s] = sendMail(@, mailOptions(req[s].body, req[s].file[1])) ]
              /\ pc' = [ pc EXCEPT ![s] = "AwaitRecruiter" ]
              /\ UNCHANGED res
    /\ UNCHANGED << now, hits, resetTime, recent, req >>

(***************************************************************************)
(* The mail transport replies to a pending send: success or an error.      *)
(***************************************************************************)
Pending(s) == mail[s] # << >> /\ mail[s][Len(mail[s])].result = "pending"

sendMailReply(s, result, error) ==
    /\ Pending(s)
    /\ mail' = [ mail EXCEPT ![s][Len(mail[s])] =
                   [ @ EXCEPT !.result = result, !.error = error ] ]
    /\ UNCHANGED << now, hits, resetTime, recent, pc, req, res, reached >>

(***************************************************************************)
(* The handler resumes after await transporter.sendMail(mailOptions).      *)
(***************************************************************************)
\* The first send not awaited for its outcome: the confirmation goes out
\* whatever the recruiter send returned.
afterRecruiterSend_IgnoreFailure(s) ==
    /\ pc[s] = "AwaitRecruiter"
    /\ ~ Pending(s)
    /\ mail' = [ mail EXCEPT ![s] = sendMail(@, confirmationMailOptions(req[s].body)) ]
    /\ pc' = [ pc EXCEPT ![s] = "AwaitConfirmation" ]
    /\ UNCHANGED << now, hits, resetTime, recent, req, res, reached >>

\* The confirmation left out: success is reported after the first send.
afterRecruiterSend_SkipConfirmation(s) ==
    /\ pc[s] = "AwaitRecruiter"
    /\ ~ Pending(s)
    /\ IF mail[s][1].result = "ok"
         THEN res' = [ res EXCEPT
                         ![s] = Append(@, Response(200, TRUE, TRUE, SuccessMessage)) ]
         ELSE res' = [ res EXCEPT
                         ![s] = Append(@, catchBlock([ multer |-> FALSE,
                                                       message |-> mail[s][1].error ])) ]
    /\ pc' = [ pc EXCEPT ![s] = "Done" ]
    /\ UNCHANGED << now, hits, resetTime, recent, req, mail, reached >>

afterRecruiterSend(s) ==
    /\ pc[s] = "AwaitRecruiter"
    /\ ~ Pending(s)
    /\ IF mail[s][1].result = "ok"
         THEN /\ mail' = [ mail EXCEPT
                             ![s] = sendMail(@, confirmationMailOptions(req[s].body)) ]
              /\ pc' = [ pc EXCEPT ![s] = "AwaitConfirmation" ]
              /\ UNCHANGED res
         ELSE /\ res' = [ res EXCEPT
                            ![s] = Append(@, catchBlock([ multer |-> FALSE,
                                                          message |-> mail[s][1].error ])) ]
              /\ pc' = [ pc EXCEPT ![s] = "Done" ]
              /\ UNCHANGED mail
    /\ UNCHANGED << now, hits, resetTime, recent, req, reached >>

(***************************************************************************)
(* The handler resumes after await                                         *)
(* transporter.sendMail(confirmationMailOptions).                          *)
(***************************************************************************)
\* The outcome read from a variable every request shares: the last reply the
\* transport gave to anyone.
afterConfirmationSend_SharedOutcome(s) ==
    /\ pc[s] = "AwaitConfirmation"
    /\ ~ Pending(s)
    /\ IF \A r \in Reqs : \A i \in 1..Len(mail[r]) : mail[r][i].result # "error"
         THEN res' = [ res EXCEPT
                         ![s] = Append(@, Response(200, TRUE, TRUE, SuccessMessage)) ]
         ELSE res' = [ res EXCEPT
                         ![s] = Append(@, catchBlock([ multer |-> FALSE,
                                                       message |-> "" ])) ]
    /\ pc' = [ pc EXCEPT ![s] = "Done" ]
    /\ UNCHANGED << now, hits, resetTime, recent, req, mail, reached >>

\* A rejected confirmation send swallowed: the handler ends without a response.
afterConfirmationSend_SwallowError(s) ==
    /\ pc[s] = "AwaitConfirmation"
    /\ ~ Pending(s)
    /\ IF mail[s][2].result = "ok"
         THEN res' = [ res EXCEPT
                         ![s] = Append(@, Response(200, TRUE, TRUE, SuccessMessage)) ]
         ELSE UNCHANGED res
    /\ pc' = [ pc EXCEPT ![s] = "Done" ]
    /\ UNCHANGED << now, hits, resetTime, recent, req, mail, reached >>

afterConfirmationSend(s) ==
    /\ pc[s] = "AwaitConfirmation"
    /\ ~ Pending(s)
    /\ IF mail[s][2].result = "ok"
         THEN res' = [ res EXCEPT
                         ![s] = Append(@, Response(200, TRUE, TRUE, SuccessMessage)) ]
         ELSE res' = [ res EXCEPT
                         ![s] = Append(@, catchBlock([ multer |-> FALSE,
                                                       message |-> mail[s][2].error ])) ]
    /\ pc' = [ pc EXCEPT ![s] = "Done" ]
    /\ UNCHANGED << now, hits, resetTime, recent, req, mail, reached >>

(***************************************************************************)
(* Time passes by one tick.                                                *)
(***************************************************************************)
Tick ==
    /\ now < MaxTime
    /\ now' = now + 1
    /\ recent' = [ c \in Clients |->
                     [ i \in 1..WindowTicks |-> IF i = 1 THEN 0 ELSE recent[c][i - 1] ] ]
    /\ UNCHANGED << hits, resetTime, pc, req, mail, res, reached >>

(***************************************************************************)
(* Specifications.                                                         *)
(***************************************************************************)
\* Several requests of one client in flight, within one limiter window.
Next ==
    \/ \E s \in Reqs, p \in FewPayloads : limiter(s, "10.0.0.1", p)
    \/ \E s \in Reqs : upload(s)
    \/ \E s \in Reqs : submitResume(s)
    \/ \E s \in Reqs : sendMailReply(s, "ok", "")
    \/ \E s \in Reqs, e \in TransportErrors : sendMailReply(s, "error", e)
    \/ \E s \in Reqs : afterRecruiterSend(s)
    \/ \E s \in Reqs : afterConfirmationSend(s)

Spec == Init /\ [][Next]_vars

\* A single request, every form.
NextInputs ==
    \/ \E p \in AllPayloads : pc[1] = "Idle" /\ limiter(1, "10.0.0.1", p)
    \/ upload(1)
    \/ submitResume(1)
    \/ sendMailReply(1, "ok", "")
    \/ \E e \in TransportErrors : sendMailReply(1, "error", e)
    \/ afterRecruiterSend(1)
    \/ afterConfirmationSend(1)

SpecInputs == Init /\ [][NextInputs]_vars

\* One request at a time from every client, over several limiter windows.
NextLimiter ==
    \/ Tick
    \/ \E c \in Clients, p \in LimiterPayloads : limiter(1, c, p)
    \/ upload(1)
    \/ submitResume(1)
    \/ sendMailReply(1, "ok", "")
    \/ sendMailReply(1, "error", "EAUTH")
    \/ afterRecruiterSend(1)
    \/ afterConfirmationSend(1)

SpecLimiter == Init /\ [][NextLimiter]_vars

\* Several requests in flight, with the event loop running every handler
\* that can run and the transport replying to every send.
NextLive ==
    \/ \E s \in Reqs, p \in HandlerPayloads : limiter(s, "10.0.0.1", p)
    \/ \E s \in Reqs : upload(s)
    \/ \E s \in Reqs : submitResume(s)
    \/ \E s \in Reqs : sendMailReply(s, "ok", "")
    \/ \E s \in Reqs, e \in TransportErrors : sendMailReply(s, "error", e)
    \/ \E s \in Reqs : afterRecruiterSend(s)
    \/ \E s \in Reqs : afterConfirmationSend(s)

Fairness ==
    \A s \in Reqs :
        /\ WF_vars(submitResume(s))
        /\ WF_vars(afterRecruiterSend(s))
        /\ WF_vars(afterConfirmationSend(s))
        /\ WF_vars(sendMailReply(s, "ok", "")
                     \/ \E e \in TransportErrors : sendMailReply(s, "error", e))

LiveSpec == Init /\ [][NextLive]_vars /\ Fairness

(***************************************************************************)
(* Properties.                                                             *)
(***************************************************************************)
Done(s) == pc[s] = "Done"

InHandler(s) == "handler" \in reached[s]

\* Some required part of the submission is absent or empty.
SomethingMissing(s) ==
    \/ \E f \in RequiredText :
          f \notin DOMAIN req[s].body \/ Len(req[s].body[f]) = 0
    \/ Len(req[s].upload) = 0

HasAt(str) == \E i \in 1..Len(str) : str[i] = "@"

DotInDomain(str) ==
    \E i \in 1..Len(str), j \in 1..Len(str) : i < j /\ str[i] = "@" /\ str[j] = "."

\* C1: a request that reaches the handler with a required field or the file
\* absent or empty is answered 400 'All required fields must be filled' and
\* no sendMail call is made for it.
C1_MissingFieldsRejected ==
    \A s \in Reqs :
        (InHandler(s) /\ SomethingMissing(s)) =>
            /\ res[s] = << Response(400, TRUE, FALSE, MissingFieldsMessage) >>
            /\ mail[s] = << >>
            /\ Done(s)

C1_Witness ==
    \E s \in Reqs :
        /\ InHandler(s)
        /\ DOMAIN req[s].body = RequiredText
        /\ req[s].body["phone"] = << >>
        /\ \A f \in RequiredText \ {"phone"} : Len(req[s].body[f]) > 0
        /\ emailRegex(req[s].body["email"])
        /\ req[s].upload = << pdf >>
        /\ res[s] = << Response(400, TRUE, FALSE, MissingFieldsMessage) >>

\* C2: a request that reaches the handler with nothing missing and an email
\* that does not match the pattern (in particular one with no "@", or with no
\* "." after the "@") is answered 400 'Invalid email format' and no send is
\* made; when something is missing as well the answer is the missing-fields
\* one, never the invalid-email one.
C2_InvalidEmailRejected ==
    \A s \in Reqs :
        /\ ( /\ InHandler(s)
             /\ ~ SomethingMissing(s)
             /\ \/ ~ emailRegex(req[s].body["email"])
                \/ ~ HasAt(req[s].body["email"])
                \/ ~ DotInDomain(req[s].body["email"]) )
           => /\ res[s] = << Response(400, TRUE, FALSE, InvalidEmailMessage) >>
              /\ mail[s] = << >>
              /\ Done(s)
        /\ (InHandler(s) /\ SomethingMissing(s))
           => res[s] = << Response(400, TRUE, FALSE, MissingFieldsMessage) >>

C2_Witness ==
    \E s \in Reqs :
        /\ InHandler(s)
        /\ ~ SomethingMissing(s)
        /\ req[s].body["email"] = << "a", "@", "b" >>
        /\ res[s] = << Response(400, TRUE, FALSE, InvalidEmailMessage) >>

\* The uploaded file is one that File Intake must refuse.
RefusedUpload(s) ==
    /\ Len(req[s].upload) = 1
    /\ \/ req[s].upload[1].size > 5242880
       \/ req[s].upload[1].mimetype \notin
            { "application/pdf", "application/msword",
              "application/vnd.openxmlformats-officedocument.wordprocessingml.document" }

\* C4: a request whose file exceeds 5,242,880 bytes or has a MIME type that
\* is not allowed is refused by upload before the handler runs, is answered
\* 400 with an upload-error message, and no email is sent.
C4_RefusedUploadAnswered400 ==
    \A s \in Reqs :
        ("intake" \in reached[s] /\ RefusedUpload(s)) =>
            /\ ~ InHandler(s)
            /\ mail[s] = << >>
            /\ Len(res[s]) = 1
            /\ res[s][1].status = 400
            /\ res[s][1].message[1] = UploadErrorPrefix

\* What does hold of a refused upload: the handler never runs, nothing is
\* sent, and the error-handling middleware answers 500.
C4_RefusedUploadAnswered500 ==
    \A s \in Reqs :
        ("intake" \in reached[s] /\ RefusedUpload(s)) =>
            /\ ~ InHandler(s)
            /\ mail[s] = << >>
            /\ res[s] = << Response(500, TRUE, FALSE, InternalErrorMessage) >>

\* C7: the recruiter notification (the first send) replies to the submitted
\* email and carries exactly one attachment whose filename, MIME type and
\* bytes are those of the uploaded file; the applicant confirmation (the
\* second send) goes to the submitted email and carries no attachment.
C7_MessagesCarrySubmission ==
    \A s \in Reqs :
        /\ Len(mail[s]) >= 1 =>
             /\ Len(req[s].upload) = 1
             /\ mail[s][1].msg.replyTo = << req[s].body["email"] >>
             /\ Len(mail[s][1].msg.attachments) = 1
             /\ mail[s][1].msg.attachments[1].filename = req[s].upload[1].originalname
             /\ mail[s][1].msg.attachments[1].contentType = req[s].upload[1].mimetype
             /\ mail[s][1].msg.attachments[1].content = req[s].upload[1].buffer
        /\ Len(mail[s]) >= 2 =>
             /\ mail[s][2].msg.to = req[s].body["email"]
             /\ mail[s][2].msg.attachments = << >>

C7_Witness ==
    \E s \in Reqs :
        /\ Len(mail[s]) = 2
        /\ req[s].upload = << docxAtLimit >>
        /\ req[s].body["email"] = << "b", "@", "c", ".", "d" >>
        /\ mail[s][1].msg.attachments[1].content = << 80, 75 >>

\* The submission in slot s passed upload and both validation rules.
ValidSubmission(s) ==
    /\ InHandler(s)
    /\ ~ SomethingMissing(s)
    /\ emailRegex(req[s].body["email"])

IsRecruiterNotification(m) == m.subject = RecruiterSubject /\ m.to = RecruiterAddress

IsApplicantConfirmation(s, m) ==
    m.subject = ConfirmationSubject /\ m.to = req[s].body["email"]

\* C3, as stated: once a valid submission's request has ended, exactly two
\* sends were made for it, the recruiter notification and then the applicant
\* confirmation.
C3_ExactlyTwoSends ==
    \A s \in Reqs :
        (ValidSubmission(s) /\ Done(s)) =>
            /\ Len(mail[s]) = 2
            /\ IsRecruiterNotification(mail[s][1].msg)
            /\ IsApplicantConfirmation(s, mail[s][2].msg)

\* C3, amended: for a valid submission the recruiter notification is sent
\* first and once; the applicant confirmation is sent once, after it, exactly
\* when the recruiter send completed without error.  So a request that ended
\* made two sends if its recruiter send succeeded and one if it failed.
C3_RecruiterThenConfirmation ==
    \A s \in Reqs :
        ValidSubmission(s) =>
            /\ Len(mail[s]) \in {1, 2}
            /\ IsRecruiterNotification(mail[s][1].msg)
            /\ Len(mail[s]) = 2 =>
                 /\ IsApplicantConfirmation(s, mail[s][2].msg)
                 /\ mail[s][1].result = "ok"
            /\ Done(s) => (Len(mail[s]) = 2 <=> mail[s][1].result = "ok")

C3_Witness ==
    \E s \in Reqs :
        /\ ValidSubmission(s)
        /\ Done(s)
        /\ Len(mail[s]) = 2
        /\ mail[s][2].result = "ok"
        /\ \E r \in Reqs : ValidSubmission(r) /\ Done(r) /\ Len(mail[r]) = 1

RECURSIVE SumFirst(_, _)
SumFirst(seq, n) == IF n = 0 THEN 0 ELSE seq[n] + SumFirst(seq, n - 1)

\* Requests of client c admitted in the last WindowTicks ticks.
AdmittedLately(c) == SumFirst(recent[c], WindowTicks)

\* Requests of client c admitted since its current limiter window opened.
AdmittedInWindow(c) ==
    SumFirst(recent[c], now - (resetTime[c] - WindowTicks) + 1)

\* The requests are taken one at a time here, so the request in a slot is
\* the last one counted for its client and hits holds its number in the
\* client's window.  The 6th and later ones, and only they, got the fixed
\* message and went no further.
ThrottledRequestsStop ==
    \A s \in Reqs :
        pc[s] # "Idle" =>
            /\ hits[req[s].client] > 5 <=> res[s] = << ThrottleResponse >>
            /\ hits[req[s].client] > 5 =>
                 /\ res[s][1].status = 429
                 /\ res[s][1].message = ThrottleMessage
                 /\ reached[s] = {"limiter"}
                 /\ mail[s] = << >>

\* C5, as stated: for each client, in any span of one window length at most 5
\* requests are admitted past the limiter, and a throttled request gets the
\* fixed message, reaches neither upload nor the handler and sends nothing.
C5_AtMostFiveInAnySpan ==
    /\ \A c \in Clients : AdmittedLately(c) <= 5
    /\ ThrottledRequestsStop

\* C5, amended: for each client, in each window of the limiter (a window
\* opens with the client's first request after the previous window ended) at
\* most 5 requests are admitted; the requests counted 6th and later in that
\* window, valid or not, get the fixed message, reach neither upload nor the
\* handler and send nothing.
C5_AtMostFivePerLimiterWindow ==
    /\ \A c \in Clients : now < resetTime[c] => AdmittedInWindow(c) <= 5
    /\ ThrottledRequestsStop

C5_Witness ==
    \E s \in Reqs :
        /\ res[s] = << ThrottleResponse >>
        /\ req[s].upload = << pdf >>
        /\ hits[req[s].client] = 7
        /\ now < resetTime[req[s].client]
        /\ AdmittedInWindow(req[s].client) = 5

SomeSendFailed(s) == \E i \in 1..Len(mail[s]) : mail[s][i].result = "error"

\* C6: when either send of a request fails the request ends with 500 and
\* 'Failed to submit resume. Please try again.', the same for both sends; the
\* failed send is the last one made (no retry), and no response carries the
\* transport's error text.
C6_SendFailureIsGeneric500 ==
    \A s \in Reqs :
        /\ (SomeSendFailed(s) /\ Done(s)) =>
              res[s] = << Response(500, TRUE, FALSE, FailedMessage) >>
        /\ SomeSendFailed(s) => pc[s] \in {"AwaitRecruiter", "AwaitConfirmation", "Done"}
        /\ \A i \in 1..Len(mail[s]) : mail[s][i].result = "error" => i = Len(mail[s])
        /\ \A i \in 1..Len(mail[s]), j \in 1..Len(mail[s]) :
              mail[s][i].msg = mail[s][j].msg => i = j
        /\ \A i \in 1..Len(res[s]) : \A k \in 1..Len(res[s][i].message) :
              res[s][i].message[k] \notin TransportErrors

C6_Witness ==
    \E s \in Reqs, r \in Reqs :
        /\ Done(s) /\ Len(mail[s]) = 1 /\ mail[s][1].result = "error"
        /\ Done(r) /\ Len(mail[r]) = 2 /\ mail[r][2].result = "error"
        /\ res[s] = res[r]

\* C8: the confirmation send is made only after the recruiter send of the
\* same request returned without error: a failed recruiter send is never
\* followed by a confirmation send, and a failed confirmation send always
\* comes after a delivered recruiter notification.
C8_ConfirmationOnlyAfterRecruiterOk ==
    \A s \in Reqs :
        /\ Len(mail[s]) >= 2 =>
              /\ IsRecruiterNotification(mail[s][1].msg)
              /\ mail[s][1].result = "ok"
        /\ (Len(mail[s]) >= 1 /\ mail[s][1].result # "ok") => Len(mail[s]) = 1
        /\ pc[s] = "AwaitConfirmation" => Len(mail[s]) = 2

C8_Witness ==
    \E s \in Reqs :
        /\ Len(mail[s]) = 2
        /\ mail[s][1].result = "ok"
        /\ mail[s][2].result = "error"
        /\ \E r \in Reqs : Done(r) /\ Len(mail[r]) = 1 /\ mail[r][1].result = "error"

Terminal(s) ==
    /\ Done(s)
    /\ Len(res[s]) = 1
    /\ res[s][1].status \in {200, 400, 500}

\* C9: every request admitted to the handler ends in a terminal state with
\* its response sent, given that the transport replies to each send; and
\* while a send is waiting for its reply the handler neither moves nor
\* responds (it has no timeout of its own).
C9_HandlerTerminates ==
    /\ \A s \in Reqs : (pc[s] = "Handler") ~> Terminal(s)
    /\ [][ \A s \in Reqs : Pending(s) => (pc'[s] = pc[s] /\ res'[s] = res[s]) ]_vars

C9_Witness ==
    \E s \in Reqs, r \in Reqs :
        /\ Terminal(s) /\ Len(mail[s]) = 2 /\ res[s][1].status = 500
        /\ Pending(r) /\ res[r] = << >>

Succeeded(s) == \E i \in 1..Len(res[s]) : res[s][i].status = 200

\* C10: with several requests in flight, a request is answered 200
\* 'Resume submitted successfully' only if both of its own sends returned
\* without error, and it is answered with the send-failure 500 only if one of
\* its own sends failed: another request's sends do not decide it.
C10_ResponseFromOwnSends ==
    \A s \in Reqs :
        /\ Succeeded(s) =>
              /\ res[s] = << Response(200, TRUE, TRUE, SuccessMessage) >>
              /\ Len(mail[s]) = 2
              /\ mail[s][1].result = "ok"
              /\ mail[s][2].result = "ok"
        /\ (Done(s) /\ Len(mail[s]) = 2 /\ mail[s][1].result = "ok"
              /\ mail[s][2].result = "ok") => Succeeded(s)
        /\ Response(500, TRUE, FALSE, FailedMessage) \in { res[s][i] : i \in 1..Len(res[s]) }
              => SomeSendFailed(s)

C10_Witness ==
    \E s \in Reqs, r \in Reqs :
        /\ Succeeded(s)
        /\ Done(r) /\ SomeSendFailed(r)
        /\ res[r] = << Response(500, TRUE, FALSE, FailedMessage) >>

====
